---- MODULE Spec2Model ----
(***************************************************************************)
(* FaceOn: a face-tracking avatar (MediaPipe + Three.js), src/app.js.      *)
(*                                                                         *)
(* src/app.js holds two versions of the application one after the other:   *)
(* lines 1-291 (run(), which exposes window.faceOnStartCamera) and lines   *)
(* 293-634 (startApp(), which starts the camera itself).  The variable     *)
(* `variant` says which of the two is running; it never changes.           *)
(*                                                                         *)
(* Everything runs on the one JavaScript thread, so every handler below is *)
(* one atomic action.  An `await` ends an action; the continuation is the  *)
(* next action of that call.                                               *)
(*                                                                         *)
(* Numbers: a detector score s in [0,1] is the integer 10*s; a morph       *)
(* weight w is the integer 100*w (so score 5 with gain 12 is weight 60,    *)
(* i.e. 0.5 * 1.2 = 0.6).  A 4x4 matrix is the 16-tuple of its elements in *)
(* column-major order, as in THREE.Matrix4.elements.                       *)
(***************************************************************************)
EXTENDS Integers, Sequences, FiniteSets, TLC

VARIABLES
    variant,            \* 1: lines 1-291, 2: lines 293-634
    videoEl,            \* document.getElementById("video") is present
    pc,                 \* position of run() / startApp()
    scene,              \* the BasicScene exists (its render loop runs)
    faceLandmarker,     \* the detector is initialized
    video,              \* the global video handle is set
    avatar,             \* the global avatar reference: an instance or Null
    trackingActive,
    faceDetectedCount,
    startBtnDisabled,   \* startBtn.disabled
    clickListener,      \* startBtn has the streamWebcam click listener
    exposed,            \* window.faceOnStartCamera is set
    nAvatars,           \* Avatar instances constructed so far
    loading,            \* per instance: state of its loader.load call
    gltf,               \* per instance: this.gltf (NoGltf when null)
    morphTargetMeshes,  \* per instance: indices of the meshes in the list
    streams,            \* streamWebcam calls suspended at each await
    pendingCallbacks,   \* registered requestVideoFrameCallback callbacks
    logged,             \* the errors the latest handler gave to log()
    lastFrame,          \* what the callbacks of the latest video frame did;
                        \* forgotten when a handler of the avatar or of the
                        \* camera runs
    rendered,           \* what the render callback saw, when the latest
                        \* step was a render callback
    frames              \* video frames decoded so far

vars == <<variant, videoEl, pc, scene, faceLandmarker, video, avatar,
          trackingActive, faceDetectedCount, startBtnDisabled, clickListener,
          exposed, nAvatars, loading, gltf, morphTargetMeshes, streams,
          pendingCallbacks, logged, lastFrame, rendered, frames>>

(***************************************************************************)
(* Bounds of the model.                                                    *)
(***************************************************************************)
MaxAvatars == 2      \* Avatar instances constructed in one run
MaxChains == 2       \* start requests in flight plus callback chains
MaxFrames == 2       \* video frames decoded in one run

Instances == 1..MaxAvatars
Null == 0
NoGltf == [model |-> "none"]

(***************************************************************************)
(* Matrices (THREE.Matrix4, column-major).                                 *)
(***************************************************************************)
Identity == <<1, 0, 0, 0,   0, 1, 0, 0,   0, 0, 1, 0,   0, 0, 0, 1>>
\* a quarter turn about Y followed by a translation to (1, 2, -3)
TurnedHead == <<0, 0, -1, 0,   0, 1, 0, 0,   1, 0, 0, 0,   1, 2, -3, 1>>
\* the scale multiplied from the left (premultiply): the rows are scaled,
\* the translation with them
MatrixScale_premultiplied(m, x, y, z) ==
    [k \in 1..16 |-> IF k % 4 = 1 THEN m[k] * x
                     ELSE IF k % 4 = 2 THEN m[k] * y
                     ELSE IF k % 4 = 3 THEN m[k] * z
                     ELSE m[k]]

\* Matrix4.scale(v): columns 0..2 are multiplied by v.x, v.y, v.z
MatrixScale(m, x, y, z) ==
    [k \in 1..16 |-> IF k <= 4 THEN m[k] * x
                     ELSE IF k <= 8 THEN m[k] * y
                     ELSE IF k <= 12 THEN m[k] * z
                     ELSE m[k]]

(***************************************************************************)
(* What the asset loader can hand to the success callback: the morph       *)
(* target dictionary (name -> slot) of every mesh that has one.            *)
(***************************************************************************)
Dict(names) == [name \in {names[k] : k \in 1..Len(names)} |->
                   CHOOSE k \in 1..Len(names) : names[k] = name]

\* "raccoon": a head with ARKit names, a face mesh with one of them and a
\* target named the way another exporter names it, and a mesh whose targets
\* were exported without names; nothing loaded: no meshes
ModelMeshes(model) ==
    CASE model = "raccoon" -> << Dict(<<"jawOpen", "eyeBlinkLeft">>),
                                 Dict(<<"eyeBlinkLeft", "mouthSmile_L">>),
                                 Dict(<<"target_0", "target_1">>) >>
      [] OTHER             -> << >>

Models == {"raccoon"}

\* morphTargetInfluences of a freshly parsed model: all zero
FreshInfluences(model) ==
    [k \in 1..Len(ModelMeshes(model)) |->
        [s \in 1..Cardinality(DOMAIN ModelMeshes(model)[k]) |-> 0]]

(***************************************************************************)
(* What the detector can answer for a frame.                               *)
(***************************************************************************)
Absent == <<>>
Category(name, score) == [categoryName |-> name, score |-> score]
\* the face seen straight on, both fields present
FaceAhead ==
    [threw |-> FALSE, facialTransformationMatrixes |-> <<Identity>>,
     faceBlendshapes |-> << <<Category("jawOpen", 8), Category("eyeBlinkLeft", 5)>> >>]
\* a turned head for which no coefficients are reported
FaceTurned ==
    [threw |-> FALSE, facialTransformationMatrixes |-> <<TurnedHead>>,
     faceBlendshapes |-> Absent]
\* coefficients without a head transform
FaceBlink ==
    [threw |-> FALSE, facialTransformationMatrixes |-> Absent,
     faceBlendshapes |-> << <<Category("eyeBlinkLeft", 10), Category("mouthSmileLeft", 3)>> >>]
NoFace ==
    [threw |-> FALSE, facialTransformationMatrixes |-> Absent,
     faceBlendshapes |-> Absent]
DetectorThrew ==
    [threw |-> TRUE, facialTransformationMatrixes |-> Absent,
     faceBlendshapes |-> Absent]
DetectionResults == {FaceAhead, FaceTurned, FaceBlink, NoFace, DetectorThrew}

(***************************************************************************)
(* The per-frame pipeline.  It works on a record st of the state a video   *)
(* frame can change:                                                       *)
(*   gltf, faceDetectedCount   the variables of the same name              *)
(*   logged       the errors the callbacks of this video frame have logged *)
(*   calls        detectForVideo invocations of the running callback       *)
(*   frameCalls   detectForVideo invocations during this video frame       *)
(*   writes       the writes of the running callback, in program order     *)
(*   steps        the steps of the running callback that ran to their end  *)
(*   outcome      "skip", "error" (caught) or "ok" for the running callback*)
(*   registered   callbacks registered for the next video frame            *)
(***************************************************************************)
PoseWrite(this) ==
    [kind |-> "pose", inst |-> this, mesh |-> 0, slot |-> 0, value |-> 0]
WeightWrite(this, mesh, slot, value) ==
    [kind |-> "weight", inst |-> this, mesh |-> mesh, slot |-> slot,
     value |-> value]

\* applyMatrix without its `if (!this.gltf) return`
applyMatrix_noGltfGuard(st, this, matrix, scale) ==
    IF st.gltf[this].model = "none"
    THEN [st EXCEPT !.writes = Append(@, PoseWrite(this))]
    ELSE [st EXCEPT !.gltf[this].matrixAutoUpdate = FALSE,
                    !.gltf[this].matrix = MatrixScale(matrix, scale, scale, scale),
                    !.writes = Append(@, PoseWrite(this))]

\* Avatar.applyMatrix (443-450; 149-155 scales the argument in place,
\* which is the same matrix)
applyMatrix(st, this, matrix, scale) ==
    IF st.gltf[this].model = "none" THEN st
    ELSE [st EXCEPT !.gltf[this].matrixAutoUpdate = FALSE,
                    !.gltf[this].matrix = MatrixScale(matrix, scale, scale, scale),
                    !.writes = Append(@, PoseWrite(this))]
\* the inner loop with `break` where the code has `continue`
RECURSIVE SetInfluences_breaks(_, _, _, _, _)
SetInfluences_breaks(st, this, mesh, blendshapes, k) ==
    IF k > Len(blendshapes) THEN st
    ELSE LET name == blendshapes[k][1]
             value == blendshapes[k][2]
             dict == ModelMeshes(st.gltf[this].model)[mesh]
         IN  IF name \notin DOMAIN dict
             THEN st
             ELSE SetInfluences_breaks(
                    [st EXCEPT !.gltf[this].influences[mesh][dict[name]] = value,
                               !.writes = Append(@, WeightWrite(this, mesh, dict[name], value))],
                    this, mesh, blendshapes, k + 1)

\* the inner loop of updateBlendshapes: the entries of the Map, in order
RECURSIVE SetInfluences(_, _, _, _, _)
SetInfluences(st, this, mesh, blendshapes, k) ==
    IF k > Len(blendshapes) THEN st
    ELSE LET name == blendshapes[k][1]
             value == blendshapes[k][2]
             dict == ModelMeshes(st.gltf[this].model)[mesh]
         IN  IF name \notin DOMAIN dict
             THEN SetInfluences(st, this, mesh, blendshapes, k + 1)
             ELSE SetInfluences(
                    [st EXCEPT !.gltf[this].influences[mesh][dict[name]] = value,
                               !.writes = Append(@, WeightWrite(this, mesh, dict[name], value))],
                    this, mesh, blendshapes, k + 1)

\* the outer loop of updateBlendshapes: the meshes of the list, in order
RECURSIVE UpdateMeshes(_, _, _, _, _)
UpdateMeshes(st, this, meshes, blendshapes, j) ==
    IF j > Len(meshes) THEN st
    ELSE UpdateMeshes(SetInfluences(st, this, meshes[j], blendshapes, 1),
                      this, meshes, blendshapes, j + 1)

\* updateBlendshapes clearing every weight before it writes the frame's
updateBlendshapes_clearsFirst(st, this, blendshapes) ==
    IF st.gltf[this].model = "none" THEN st
    ELSE UpdateMeshes(
           [st EXCEPT !.gltf[this].influences =
                         [m \in DOMAIN @ |-> [s \in DOMAIN @[m] |-> 0]]],
           this, morphTargetMeshes[this], blendshapes, 1)

\* Avatar.updateBlendshapes
updateBlendshapes(st, this, blendshapes) ==
    UpdateMeshes(st, this, morphTargetMeshes[this], blendshapes, 1)

\* Map.set: a key that is already there keeps its place and gets the value
MapSet(map, key, value) ==
    IF \E k \in 1..Len(map) : map[k][1] = key
    THEN [k \in 1..Len(map) |-> IF map[k][1] = key THEN <<key, value>> ELSE map[k]]
    ELSE Append(map, <<key, value>>)

GainNames == {"browOuterUpLeft", "browOuterUpRight", "eyeBlinkLeft", "eyeBlinkRight"}
\* the gain multiplied in a second time
Gained_twice(c) ==
    IF c.categoryName \in GainNames THEN (c.score * 144) \div 10 ELSE c.score * 10

\* s = c.score; s *= 1.2 for the four names; in hundredths
Gained(c) == IF c.categoryName \in GainNames THEN c.score * 12 ELSE c.score * 10

\* the loop that fills the Map from blendshapes[0].categories
RECURSIVE BuildMap(_, _, _)
BuildMap(categories, k, map) ==
    IF k > Len(categories) THEN map
    ELSE BuildMap(categories, k + 1,
                  MapSet(map, categories[k].categoryName, Gained(categories[k])))

\* the guard without its `!faceLandmarker`
Skips_detectorUnchecked == ~video \/ ~trackingActive

\* the guard of detectFaceLandmarks: the callback returns at once
Skips == ~faceLandmarker \/ ~video \/ ~trackingActive
\* a frame without a head transform puts the root back to the identity
PoseStep_resetsOnAbsent(st, landmarks) ==
    LET matrices == landmarks.facialTransformationMatrixes
    IN  IF avatar # Null
        THEN [applyMatrix(st, avatar,
                          IF Len(matrices) > 0 THEN matrices[1] ELSE Identity, 40)
                EXCEPT !.steps = Append(@, "pose")]
        ELSE st

\* the pose goes to the avatar that was current when the page started
PoseStep_firstAvatar(st, landmarks) ==
    LET matrices == landmarks.facialTransformationMatrixes
    IN  IF Len(matrices) > 0 /\ avatar # Null
        THEN [applyMatrix(st, 1, matrices[1], 40)
                EXCEPT !.steps = Append(@, "pose")]
        ELSE st

\* the first if of the try block
PoseStep(st, landmarks) ==
    LET matrices == landmarks.facialTransformationMatrixes
    IN  IF Len(matrices) > 0 /\ avatar # Null
        THEN [applyMatrix(st, avatar, matrices[1], 40)
                EXCEPT !.steps = Append(@, "pose")]
        ELSE st

\* the second if written as `else if`
ExpressionStep_elseIf(st, landmarks) ==
    LET blendshapes == landmarks.faceBlendshapes
    IN  IF Len(landmarks.facialTransformationMatrixes) = 0
           /\ Len(blendshapes) > 0 /\ avatar # Null
        THEN [updateBlendshapes(
                 [st EXCEPT !.faceDetectedCount = @ + 1],
                 avatar, BuildMap(blendshapes[1], 1, <<>>))
                EXCEPT !.steps = Append(@, "expression")]
        ELSE st

\* the second if of the try block
ExpressionStep(st, landmarks) ==
    LET blendshapes == landmarks.faceBlendshapes
    IN  IF Len(blendshapes) > 0 /\ avatar # Null
        THEN [updateBlendshapes(
                 [st EXCEPT !.faceDetectedCount = @ + 1],
                 avatar, BuildMap(blendshapes[1], 1, <<>>))
                EXCEPT !.steps = Append(@, "expression")]
        ELSE st

\* detectFaceLandmarks(time); landmarks is what detectForVideo answers
detectFaceLandmarks(st, landmarks) ==
    IF Skips THEN [st EXCEPT !.outcome = "skip"]
    ELSE LET called == [st EXCEPT !.calls = @ + 1]
         IN  IF landmarks.threw
             THEN [called EXCEPT !.outcome = "error",
                                 !.logged = @ \cup {"detectFaceLandmarks ERROR"}]
             ELSE [ExpressionStep(PoseStep(called, landmarks), landmarks)
                     EXCEPT !.outcome = "ok"]
\* onVideoFrame that registers the next callback only when the frame was
\* processed
onVideoFrame_stopsOnSkip(st, landmarks) ==
    LET done == detectFaceLandmarks([st EXCEPT !.writes = <<>>, !.steps = <<>>, !.calls = 0],
                                    landmarks)
    IN  [done EXCEPT !.registered = @ + (IF video /\ done.outcome # "skip" THEN 1 ELSE 0),
                     !.frameCalls = @ + done.calls]

\* onVideoFrame with the try/catch missing: the exception leaves the callback
onVideoFrame_uncaught(st, landmarks) ==
    LET done == detectFaceLandmarks([st EXCEPT !.writes = <<>>, !.steps = <<>>, !.calls = 0],
                                    landmarks)
    IN  [done EXCEPT !.registered = @ + (IF video /\ done.outcome # "error" THEN 1 ELSE 0),
                     !.frameCalls = @ + done.calls]

\* onVideoFrame(time)
onVideoFrame(st, landmarks) ==
    LET done == detectFaceLandmarks([st EXCEPT !.writes = <<>>, !.steps = <<>>, !.calls = 0],
                                    landmarks)
    IN  [done EXCEPT !.registered = @ + (IF video THEN 1 ELSE 0),
                     !.frameCalls = @ + done.calls]

\* the callbacks registered for one video frame run one after the other
RECURSIVE RunCallbacks(_, _, _)
RunCallbacks(n, st, landmarks) ==
    IF n = 0 THEN st
    ELSE RunCallbacks(n - 1, onVideoFrame(st, landmarks), landmarks)

\* the record of no video frame
NoFrame ==
    [outcome |-> "none", after |-> "none", callbacks |-> 0, calls |-> 0,
     frameCalls |-> 0,
     writes |-> <<>>, steps |-> <<>>, touched |-> {}, counted |-> 0,
     registered |-> 0,
     target |-> Null, targetLoaded |-> FALSE, detectorThrew |-> FALSE,
     hadMatrix |-> FALSE, hadShapes |-> FALSE,
     transform |-> Absent, reported |-> Absent]

\* a handler that is neither a video frame nor a render callback ran
Quiet == lastFrame' = NoFrame /\ rendered' = "nothing" /\ frames' = frames

(***************************************************************************)
(* Avatar instances and the model swap.                                    *)
(***************************************************************************)
\* the scene graph the success callback stores in this.gltf: the second
\* version places it (397-398), the first leaves the loader's defaults
LoadedGltf(model) ==
    [model |-> model,
     position |-> IF variant = 2 THEN <<0, 0, -200>> ELSE <<0, 0, 0>>,
     scale |-> IF variant = 2 THEN 40 ELSE 1,
     matrix |-> Identity,
     matrixAutoUpdate |-> TRUE,
     parent |-> TRUE,
     influences |-> FreshInfluences(model)]

\* Avatar.init pushes every mesh that has morph targets onto the list
InitMeshes(list, model) ==
    list \o [k \in 1..Len(ModelMeshes(model)) |-> k]

\* Avatar.remove, on this.gltf: detach the scene graph from its parent
Detached(g) ==
    IF g.model # "none" /\ g.parent THEN [g EXCEPT !.parent = FALSE] ELSE g

\* loadAvatar(url).  sceneNow: the value of `scene` when it is called.
\* 549-556 removes the previous avatar first; 230-232 only replaces it.
loadAvatar(sceneNow) ==
    IF variant = 2 /\ ~sceneNow
    THEN UNCHANGED <<avatar, nAvatars, loading, gltf, morphTargetMeshes>>
    ELSE /\ nAvatars' = nAvatars + 1
         /\ avatar' = nAvatars + 1
         /\ loading' = [loading EXCEPT ![nAvatars + 1] = "inflight"]
         /\ IF variant = 2 /\ avatar # Null
            THEN /\ gltf' = [gltf EXCEPT ![avatar] = Detached(@)]
                 /\ morphTargetMeshes' = [morphTargetMeshes EXCEPT ![avatar] = <<>>]
            ELSE UNCHANGED <<gltf, morphTargetMeshes>>

\* the change handlers of the model picker and of the file input
SelectModel ==
    /\ pc \in {"initMediaPipe", "ready"}
    /\ nAvatars < MaxAvatars
    /\ loadAvatar(scene)
    /\ UNCHANGED <<variant, videoEl, pc, scene, faceLandmarker, video,
                   trackingActive, faceDetectedCount, startBtnDisabled,
                   clickListener, exposed, streams, pendingCallbacks>>
    /\ logged' = {}
    /\ Quiet

\* the success callback of loader.load, for the instance `this`
LoadSuccess(this, model) ==
    /\ loading[this] = "inflight"
    /\ loading' = [loading EXCEPT ![this] = "done"]
    /\ gltf' = [gltf EXCEPT ![this] = LoadedGltf(model)]
    /\ morphTargetMeshes' =
         [morphTargetMeshes EXCEPT
            ![this] = InitMeshes(IF gltf[this].model # "none" THEN <<>> ELSE @, model)]
    /\ UNCHANGED <<variant, videoEl, pc, scene, faceLandmarker, video, avatar,
                   trackingActive, faceDetectedCount, startBtnDisabled,
                   clickListener, exposed, nAvatars, streams, pendingCallbacks>>
    /\ logged' = {}
    /\ Quiet

\* the error callback of loader.load, for the instance `this`
LoadError(this) ==
    /\ loading[this] = "inflight"
    /\ loading' = [loading EXCEPT ![this] = "failed"]
    /\ logged' = {"loadModel ERROR"}
    /\ UNCHANGED <<variant, videoEl, pc, scene, faceLandmarker, video, avatar,
                   trackingActive, faceDetectedCount, startBtnDisabled,
                   clickListener, exposed, nAvatars, gltf, morphTargetMeshes,
                   streams, pendingCallbacks>>
    /\ Quiet

(***************************************************************************)
(* Camera start.  streams[s] counts the streamWebcam calls waiting at the  *)
(* await s.  The first version has the one await (getUserMedia).           *)
(***************************************************************************)
Stages == {"getUserMedia", "loadedmetadata", "play"}
InFlight == streams["getUserMedia"] + streams["loadedmetadata"] + streams["play"]

\* streamWebcam() up to its first await; loggedNow: what the handler that
\* calls it has logged
streamWebcam(loggedNow) ==
    IF variant = 2 /\ ~videoEl
    THEN /\ logged' = loggedNow \cup {"streamWebcam video element not found"}
         /\ UNCHANGED <<video, startBtnDisabled, streams>>
    ELSE /\ video' = videoEl
         /\ startBtnDisabled' = TRUE
         /\ streams' = [streams EXCEPT !["getUserMedia"] = @ + 1]
         /\ logged' = loggedNow

\* a catch block that also turns tracking off
StreamCatch_stopsTracking(stage) ==
    /\ streams' = [streams EXCEPT ![stage] = @ - 1]
    /\ logged' = {"streamWebcam ERROR"}
    /\ startBtnDisabled' = FALSE
    /\ trackingActive' = FALSE
    /\ UNCHANGED pendingCallbacks

\* the catch block of streamWebcam
StreamCatch(stage) ==
    /\ streams' = [streams EXCEPT ![stage] = @ - 1]
    /\ logged' = {"streamWebcam ERROR"}
    /\ startBtnDisabled' = FALSE
    /\ UNCHANGED <<trackingActive, pendingCallbacks>>

\* the end of the try block of streamWebcam
StreamTracking(stage) ==
    /\ streams' = [streams EXCEPT ![stage] = @ - 1]
    /\ trackingActive' = TRUE
    /\ pendingCallbacks' = pendingCallbacks + 1
    /\ logged' = {}
    /\ UNCHANGED startBtnDisabled

\* getUserMedia settles.  In the first version `video` may be null, and
\* then video.srcObject = stream throws into the catch block.
GetUserMediaSettles ==
    /\ streams["getUserMedia"] > 0
    /\ \E resolved \in BOOLEAN :
         IF ~resolved \/ ~video THEN StreamCatch("getUserMedia")
         ELSE IF variant = 1 THEN StreamTracking("getUserMedia")
         ELSE /\ streams' = [streams EXCEPT !["getUserMedia"] = @ - 1,
                                            !["loadedmetadata"] = @ + 1]
              /\ logged' = {}
              /\ UNCHANGED <<startBtnDisabled, trackingActive, pendingCallbacks>>
    /\ UNCHANGED <<variant, videoEl, pc, scene, faceLandmarker, video, avatar,
                   faceDetectedCount, clickListener, exposed, nAvatars, loading,
                   gltf, morphTargetMeshes>>
    /\ Quiet

\* video.onloadedmetadata (or readyState >= 1) resolves, video.onerror rejects
MetadataSettles ==
    /\ streams["loadedmetadata"] > 0
    /\ \E resolved \in BOOLEAN :
         IF ~resolved THEN StreamCatch("loadedmetadata")
         ELSE /\ streams' = [streams EXCEPT !["loadedmetadata"] = @ - 1,
                                            !["play"] = @ + 1]
              /\ logged' = {}
              /\ UNCHANGED <<startBtnDisabled, trackingActive, pendingCallbacks>>
    /\ UNCHANGED <<variant, videoEl, pc, scene, faceLandmarker, video, avatar,
                   faceDetectedCount, clickListener, exposed, nAvatars, loading,
                   gltf, morphTargetMeshes>>
    /\ Quiet

\* video.play() settles
PlaySettles ==
    /\ streams["play"] > 0
    /\ \E resolved \in BOOLEAN :
         IF resolved THEN StreamTracking("play") ELSE StreamCatch("play")
    /\ UNCHANGED <<variant, videoEl, pc, scene, faceLandmarker, video, avatar,
                   faceDetectedCount, clickListener, exposed, nAvatars, loading,
                   gltf, morphTargetMeshes>>
    /\ Quiet

\* a click on the start button (a disabled button fires no click)
ClickStart ==
    /\ clickListener
    /\ ~startBtnDisabled
    /\ InFlight + pendingCallbacks < MaxChains
    /\ streamWebcam({})
    /\ UNCHANGED <<variant, videoEl, pc, scene, faceLandmarker, avatar,
                   trackingActive, faceDetectedCount, clickListener, exposed,
                   nAvatars, loading, gltf, morphTargetMeshes, pendingCallbacks>>
    /\ Quiet

\* a call of window.faceOnStartCamera
faceOnStartCamera ==
    /\ exposed
    /\ InFlight + pendingCallbacks < MaxChains
    /\ streamWebcam({})
    /\ UNCHANGED <<variant, videoEl, pc, scene, faceLandmarker, avatar,
                   trackingActive, faceDetectedCount, clickListener, exposed,
                   nAvatars, loading, gltf, morphTargetMeshes, pendingCallbacks>>
    /\ Quiet

(***************************************************************************)
(* Startup.                                                                *)
(***************************************************************************)
\* run() of the first version, up to `await initMediaPipe()`
run ==
    /\ variant = 1
    /\ pc = "boot"
    /\ exposed' = TRUE
    /\ loadAvatar(scene)
    /\ pc' = "initMediaPipe"
    /\ UNCHANGED <<variant, videoEl, scene, faceLandmarker, video,
                   trackingActive, faceDetectedCount, startBtnDisabled,
                   clickListener, streams, pendingCallbacks>>
    /\ logged' = {}
    /\ Quiet

\* startApp() of the second version, up to `await initMediaPipe()`
startApp ==
    /\ variant = 2
    /\ pc = "boot"
    /\ \E elementsFound \in BOOLEAN, sceneBuilt \in BOOLEAN :
         IF elementsFound /\ sceneBuilt
         THEN /\ scene' = TRUE
              /\ loadAvatar(TRUE)
              /\ pc' = "initMediaPipe"
              /\ logged' = {}
         ELSE /\ logged' = {"startApp ERROR"}
              /\ pc' = "returned"
              /\ UNCHANGED <<scene, avatar, nAvatars, loading, gltf, morphTargetMeshes>>
    /\ UNCHANGED <<variant, videoEl, faceLandmarker, video, trackingActive,
                   faceDetectedCount, startBtnDisabled, clickListener, exposed,
                   streams, pendingCallbacks>>
    /\ Quiet

\* how the try block of initMediaPipe can end: at its end; in the catch
\* block from one of the two awaits, before faceLandmarker is assigned; in
\* the catch block from faceLandmarker.setOptions, after the assignment
InitOutcomes == {"ready", "rejected", "setOptionsThrew"}

\* initMediaPipe() settles, and run() / startApp() goes on to its end
InitMediaPipeSettles ==
    /\ pc = "initMediaPipe"
    /\ pc' = "ready"
    /\ \E result \in InitOutcomes :
         LET loggedNow == IF result = "ready" THEN {} ELSE {"initMediaPipe ERROR"}
         IN  /\ faceLandmarker' = (result # "rejected")
             /\ IF variant = 2
                THEN /\ clickListener' = TRUE
                     /\ streamWebcam(loggedNow)
                ELSE /\ logged' = loggedNow
                     /\ UNCHANGED <<clickListener, video, startBtnDisabled, streams>>
    /\ UNCHANGED <<variant, videoEl, scene, avatar, trackingActive,
                   faceDetectedCount, exposed, nAvatars, loading, gltf,
                   morphTargetMeshes, pendingCallbacks>>
    /\ rendered' = "nothing"
    /\ UNCHANGED <<lastFrame, frames>>

(***************************************************************************)
(* The two loops.                                                          *)
(***************************************************************************)
\* what the callbacks of one video frame start from
FrameStart ==
    [gltf |-> gltf, faceDetectedCount |-> faceDetectedCount, logged |-> {},
     calls |-> 0, frameCalls |-> 0, writes |-> <<>>, steps |-> <<>>,
     outcome |-> "none", registered |-> 0]

\* a decoded video frame: every registered callback runs once
VideoFrame ==
    /\ pendingCallbacks > 0
    /\ \E landmarks \in DetectionResults :
       \E end \in {RunCallbacks(pendingCallbacks, FrameStart, landmarks)} :
             /\ frames < MaxFrames
             /\ frames' = frames + 1
             /\ gltf' = end.gltf
             /\ faceDetectedCount' = end.faceDetectedCount
             /\ logged' = end.logged
             /\ pendingCallbacks' = end.registered
             /\ lastFrame' =
                  [outcome |-> end.outcome,
                   after |-> lastFrame.outcome,
                   callbacks |-> pendingCallbacks,
                   calls |-> end.calls,
                   frameCalls |-> end.frameCalls,
                   writes |-> end.writes,
                   steps |-> end.steps,
                   touched |-> {i \in Instances : end.gltf[i] # gltf[i]},
                   counted |-> end.faceDetectedCount - faceDetectedCount,
                   registered |-> end.registered,
                   target |-> avatar,
                   targetLoaded |-> (avatar # Null /\ gltf[avatar].model # "none"),
                   detectorThrew |-> (end.calls > 0 /\ landmarks.threw),
                   hadMatrix |-> (end.outcome = "ok" /\ Len(landmarks.facialTransformationMatrixes) > 0),
                   hadShapes |-> (end.outcome = "ok" /\ Len(landmarks.faceBlendshapes) > 0),
                   transform |-> IF end.outcome = "ok"
                                 THEN landmarks.facialTransformationMatrixes
                                 ELSE Absent,
                   reported |-> IF end.outcome = "ok" /\ Len(landmarks.faceBlendshapes) > 0
                                THEN landmarks.faceBlendshapes[1]
                                ELSE Absent]
    /\ UNCHANGED <<variant, videoEl, pc, scene, faceLandmarker, video, avatar,
                   trackingActive, startBtnDisabled, clickListener, exposed,
                   nAvatars, loading, morphTargetMeshes, streams>>
    /\ rendered' = "nothing"

\* what a render callback sees of the latest processed frame: "torn" when
\* the frame's pose is in the scene and its coefficients are not, or the
\* other way round
Seen ==
    IF lastFrame.outcome \in {"none", "skip"} THEN "nothing"
    ELSE IF lastFrame.hadMatrix /\ lastFrame.hadShapes /\ lastFrame.targetLoaded
            /\ lastFrame.steps # <<"pose", "expression">>
         THEN "torn"
         ELSE "whole"

\* BasicScene.render: draws the scene; it writes nothing of the avatars
render ==
    /\ scene
    /\ rendered' = Seen
    /\ UNCHANGED <<variant, videoEl, pc, scene, faceLandmarker, video, avatar,
                   trackingActive, faceDetectedCount, startBtnDisabled,
                   clickListener, exposed, nAvatars, loading, gltf,
                   morphTargetMeshes, streams, pendingCallbacks>>
    /\ logged' = {}
    /\ UNCHANGED <<lastFrame, frames>>

(***************************************************************************)
(* The specification.                                                      *)
(***************************************************************************)
Init ==
    /\ variant \in {1, 2}
    /\ videoEl \in BOOLEAN
    /\ pc = "boot"
    /\ scene = (variant = 1)
    /\ faceLandmarker = FALSE
    /\ video = FALSE
    /\ avatar = Null
    /\ trackingActive = FALSE
    /\ faceDetectedCount = 0
    /\ startBtnDisabled = FALSE
    /\ clickListener = FALSE
    /\ exposed = FALSE
    /\ nAvatars = 0
    /\ loading = [i \in Instances |-> "none"]
    /\ gltf = [i \in Instances |-> NoGltf]
    /\ morphTargetMeshes = [i \in Instances |-> <<>>]
    /\ streams = [s \in Stages |-> 0]
    /\ pendingCallbacks = 0
    /\ logged = {}
    /\ lastFrame = NoFrame
    /\ rendered = "nothing"
    /\ frames = 0

Next ==
    \/ run
    \/ startApp
    \/ InitMediaPipeSettles
    \/ SelectModel
    \/ \E this \in Instances, model \in Models : LoadSuccess(this, model)
    \/ \E this \in Instances : LoadError(this)
    \/ ClickStart
    \/ faceOnStartCamera
    \/ GetUserMediaSettles
    \/ MetadataSettles
    \/ PlaySettles
    \/ VideoFrame
    \/ render

Spec == Init /\ [][Next]_vars

(***************************************************************************)
(* Properties.                                                             *)
(***************************************************************************)
Constructed == 1..nAvatars
Loaded(i) == gltf[i].model # "none"
Attached == {i \in Instances : Loaded(i) /\ gltf[i].parent}
FrameRan == frames' # frames
PoseWrites == {k \in 1..Len(lastFrame.writes) : lastFrame.writes[k].kind = "pose"}
WeightWrites == {k \in 1..Len(lastFrame.writes) : lastFrame.writes[k].kind = "weight"}

\* C1: an instance that was superseded while its load was in flight is not
\* attached to the scene and has an empty mesh list after every later step,
\* the step of its own load-success callback included.
C1_StaleLoadDiscarded ==
    [][\A i \in Constructed :
         (i # avatar /\ loading[i] = "inflight")
            => (i \notin Attached' /\ morphTargetMeshes'[i] = <<>>)]_vars

\* C2: at most one instance's scene graph is attached to the render scene,
\* and no instance that loadAvatar has replaced is attached.
C2_OnlyCurrentAttached ==
    /\ Cardinality(Attached) <= 1
    /\ \A i \in Constructed : i # avatar => i \notin Attached

\* C3: every write of a video-frame callback goes to the one instance that
\* loadAvatar created last, and the matrix and the morph weights of a
\* replaced instance never change again, in no step of any handler.
C3_SwapAtomicPerFrame ==
    [][/\ FrameRan =>
            /\ \A k \in 1..Len(lastFrame'.writes) : lastFrame'.writes[k].inst = nAvatars
            /\ lastFrame'.touched \subseteq {nAvatars}
            /\ avatar = nAvatars
       /\ \A i \in Constructed :
            (i # avatar /\ Loaded(i))
               => /\ gltf'[i].matrix = gltf[i].matrix
                  /\ gltf'[i].matrixAutoUpdate = gltf[i].matrixAutoUpdate
                  /\ gltf'[i].influences = gltf[i].influences]_vars

\* a frame wrote to the second avatar while the first, which an earlier
\* frame had posed, is still loaded
C3_Witness ==
    /\ lastFrame.target = 2
    /\ PoseWrites # {}
    /\ WeightWrites # {}
    /\ Loaded(1)
    /\ ~gltf[1].matrixAutoUpdate

\* C4: a frame in which the detector throws logs the error, invokes the
\* detector once per callback and not again, writes nothing, and registers
\* the next callback; the video frame after it runs the pipeline again.
C4_ThrowDoesNotStopLoop ==
    [][/\ (FrameRan /\ lastFrame'.detectorThrew) =>
            /\ lastFrame'.outcome = "error"
            /\ "detectFaceLandmarks ERROR" \in logged'
            /\ lastFrame'.calls = 1
            /\ lastFrame'.writes = <<>>
            /\ gltf' = gltf
            /\ pendingCallbacks' = pendingCallbacks
            /\ pendingCallbacks' >= 1
       /\ (FrameRan /\ lastFrame.outcome = "error") =>
            /\ lastFrame'.outcome \in {"ok", "error"}
            /\ lastFrame'.calls = 1]_vars

\* the frame right after a frame whose detector call threw was processed
C4_Witness ==
    /\ lastFrame.outcome = "ok"
    /\ lastFrame.hadShapes
    /\ lastFrame.after = "error"

\* C5: trackingActive never goes back to false, while it is true a
\* video-frame callback is registered, and every video frame leaves as many
\* callbacks registered as it ran (each callback registers exactly one).
C5_NoWayBackToIdle ==
    [][/\ trackingActive => trackingActive'
       /\ trackingActive' => pendingCallbacks' >= 1
       /\ FrameRan =>
            /\ lastFrame'.registered = lastFrame'.callbacks
            /\ pendingCallbacks' = pendingCallbacks]_vars

\* tracking is on and a second frame in a row ended in a caught error
C5_Witness ==
    /\ trackingActive
    /\ frames >= 2
    /\ lastFrame.outcome = "error"
    /\ pendingCallbacks >= 1

\* C6: at most one video-frame callback is ever registered, and no video
\* frame makes more than one detectForVideo call.
C6_OneCallbackChain ==
    /\ pendingCallbacks <= 1
    /\ lastFrame.frameCalls <= 1

\* C7: a video frame whose callbacks find the detector missing, the video
\* handle unset or tracking off makes no detectForVideo call and changes
\* neither a scene graph (matrix, weights) nor faceDetectedCount.
C7_SkipChangesNothing ==
    [][(FrameRan /\ (~faceLandmarker \/ ~video \/ ~trackingActive)) =>
            /\ lastFrame'.outcome = "skip"
            /\ lastFrame'.frameCalls = 0
            /\ lastFrame'.writes = <<>>
            /\ gltf' = gltf
            /\ faceDetectedCount' = faceDetectedCount]_vars

\* a callback skipped although a loaded avatar was there to be written
C7_Witness ==
    /\ lastFrame.outcome = "skip"
    /\ lastFrame.targetLoaded
    /\ ~faceLandmarker
    /\ trackingActive

\* C8: when the loader's error callback fires for the current avatar, the
\* avatar reference designates no instance afterwards, the error is logged
\* and the failed instance is not attached to the scene.
C8_FailedLoadLeavesNoAvatar ==
    [][\A i \in Constructed :
         (avatar = i /\ loading[i] = "inflight" /\ loading'[i] = "failed")
            => /\ avatar' = Null
               /\ "loadModel ERROR" \in logged'
               /\ i \notin Attached']_vars

\* C9: a video frame that passes the guard while the active avatar has no
\* loaded scene invokes the detector once per callback, ends without an
\* escaping exception, writes nothing and leaves the registered callbacks
\* as they were.
C9_UnloadedAvatarTolerated ==
    [][(/\ FrameRan
        /\ faceLandmarker /\ video /\ trackingActive
        /\ (avatar = Null \/ ~Loaded(avatar))) =>
            /\ lastFrame'.calls = 1
            /\ lastFrame'.outcome = (IF lastFrame'.detectorThrew THEN "error" ELSE "ok")
            /\ lastFrame'.writes = <<>>
            /\ gltf' = gltf
            /\ pendingCallbacks' = pendingCallbacks]_vars

\* a frame with a head transform and coefficients was consumed between a
\* swap request and the load completion of the new instance
C9_Witness ==
    /\ lastFrame.outcome = "ok"
    /\ lastFrame.hadMatrix
    /\ lastFrame.hadShapes
    /\ lastFrame.counted >= 1
    /\ nAvatars >= 2
    /\ loading[avatar] = "inflight"

\* C10: a callback writes the pose before any morph weight; a frame that
\* reports both a transform and coefficients has both steps done when the
\* callback returns, a frame with a caught exception has neither, and no
\* render callback sees the one without the other.
C10_NoHalfAppliedFrame ==
    /\ \A p \in PoseWrites : \A w \in WeightWrites : p < w
    /\ (lastFrame.hadMatrix /\ lastFrame.hadShapes /\ lastFrame.target # Null)
          => lastFrame.steps = <<"pose", "expression">>
    /\ (lastFrame.hadMatrix /\ lastFrame.hadShapes /\ lastFrame.targetLoaded)
          => (PoseWrites # {}
              /\ (gltf[lastFrame.target].model = "raccoon" => WeightWrites # {}))
    /\ lastFrame.outcome = "error" => (lastFrame.steps = <<>> /\ lastFrame.writes = <<>>)
    /\ rendered # "torn"

\* a render callback ran right after a frame that posed the avatar and
\* wrote its weights
C10_Witness ==
    /\ rendered = "whole"
    /\ lastFrame.hadMatrix
    /\ lastFrame.hadShapes
    /\ PoseWrites # {}
    /\ WeightWrites # {}

\* the meshes on the list of instance i, and the name -> slot table of one
MeshesOf(i) == {morphTargetMeshes[i][k] : k \in 1..Len(morphTargetMeshes[i])}
Vocabulary(i, mesh) == ModelMeshes(gltf[i].model)[mesh]

\* a callback of the frame went through the try block to its end
FrameOk == FrameRan /\ lastFrame'.outcome = "ok"

\* C11: a frame whose detection result has no head transform leaves the
\* root matrix (and its matrixAutoUpdate flag) of every instance as it was,
\* and still writes the frame's coefficients into the morph weights of the
\* active avatar.
C11_AbsentTransformKeepsPose ==
    [][(FrameOk /\ lastFrame'.transform = Absent) =>
            /\ \A i \in Instances : Loaded(i) =>
                  /\ gltf'[i].matrix = gltf[i].matrix
                  /\ gltf'[i].matrixAutoUpdate = gltf[i].matrixAutoUpdate
            /\ \A k \in 1..Len(lastFrame'.writes) : lastFrame'.writes[k].kind = "weight"
            /\ (lastFrame'.targetLoaded /\ lastFrame'.reported # Absent) =>
                  \A mesh \in MeshesOf(avatar) :
                     \A c \in 1..Len(lastFrame'.reported) :
                        LET name == lastFrame'.reported[c].categoryName
                        IN  name \in DOMAIN Vocabulary(avatar, mesh) =>
                              \E w \in 1..Len(lastFrame'.writes) :
                                 /\ lastFrame'.writes[w].mesh = mesh
                                 /\ lastFrame'.writes[w].slot = Vocabulary(avatar, mesh)[name]]_vars

\* a frame without a transform wrote weights to an avatar that an earlier
\* frame had turned
C11_Witness ==
    /\ lastFrame.outcome = "ok"
    /\ lastFrame.transform = Absent
    /\ lastFrame.reported # Absent
    /\ WeightWrites # {}
    /\ lastFrame.target # Null
    /\ gltf[lastFrame.target].matrix = MatrixScale(TurnedHead, 40, 40, 40)

\* the names a frame reports, and the four names of the gain list as the
\* claims give them
ReportedNames(f) == {f.reported[c].categoryName : c \in 1..Len(f.reported)}
BoostedNames == {"eyeBlinkLeft", "eyeBlinkRight", "browOuterUpLeft", "browOuterUpRight"}

\* C12: after a frame, in every mesh of the active avatar, the slot of a
\* reported name that is in the mesh's vocabulary and has no gain entry holds
\* the raw score (score 8 gives weight 80, i.e. 0.8), and every slot whose
\* name the frame does not report holds what it held before.
C12_NamedSlotGetsRawScore ==
    [][(FrameOk /\ lastFrame'.targetLoaded /\ lastFrame'.reported # Absent) =>
          \A mesh \in MeshesOf(avatar) :
             /\ \A c \in 1..Len(lastFrame'.reported) :
                   LET name == lastFrame'.reported[c].categoryName
                       score == lastFrame'.reported[c].score
                   IN  (name \in DOMAIN Vocabulary(avatar, mesh) /\ name \notin BoostedNames)
                          => gltf'[avatar].influences[mesh][Vocabulary(avatar, mesh)[name]]
                                = score * 10
             /\ \A name \in DOMAIN Vocabulary(avatar, mesh) :
                   name \notin ReportedNames(lastFrame')
                      => gltf'[avatar].influences[mesh][Vocabulary(avatar, mesh)[name]]
                            = gltf[avatar].influences[mesh][Vocabulary(avatar, mesh)[name]]]_vars

\* a frame that does not report jawOpen ran on an avatar whose jawOpen slot
\* an earlier frame had set to 0.8
C12_Witness ==
    /\ lastFrame.outcome = "ok"
    /\ lastFrame.targetLoaded
    /\ lastFrame.reported # Absent
    /\ "jawOpen" \notin ReportedNames(lastFrame)
    /\ WeightWrites # {}
    /\ 1 \in MeshesOf(lastFrame.target)
    /\ gltf[lastFrame.target].influences[1][1] = 80

\* the weight the claims give for a reported coefficient, in hundredths
ExpectedWeight(c) ==
    IF c.categoryName \in BoostedNames THEN c.score * 12 ELSE c.score * 10

\* C13: every weight a frame writes is the raw score times 1.2 for
\* eyeBlinkLeft, eyeBlinkRight, browOuterUpLeft and browOuterUpRight (score 5
\* gives 60, i.e. 0.5 gives 0.6) and the raw score for every other name, in
\* every mesh of the avatar alike, and that is the value the slot holds
\* after the frame.
C13_GainOnceByName ==
    [][(FrameOk /\ lastFrame'.targetLoaded /\ lastFrame'.reported # Absent) =>
          \A mesh \in MeshesOf(avatar) :
             \A c \in 1..Len(lastFrame'.reported) :
                LET name == lastFrame'.reported[c].categoryName
                    slot == Vocabulary(avatar, mesh)[name]
                IN  name \in DOMAIN Vocabulary(avatar, mesh) =>
                      /\ gltf'[avatar].influences[mesh][slot]
                            = ExpectedWeight(lastFrame'.reported[c])
                      /\ \A w \in 1..Len(lastFrame'.writes) :
                            (lastFrame'.writes[w].mesh = mesh /\ lastFrame'.writes[w].slot = slot)
                               => lastFrame'.writes[w].value
                                     = ExpectedWeight(lastFrame'.reported[c])]_vars

\* eyeBlinkLeft 0.5 became 0.6 in both meshes that have the target, next to
\* jawOpen written as reported
C13_Witness ==
    /\ lastFrame.outcome = "ok"
    /\ lastFrame.targetLoaded
    /\ \E c \in 1..Len(lastFrame.reported) :
          lastFrame.reported[c] = Category("eyeBlinkLeft", 5)
    /\ {1, 2} \subseteq MeshesOf(lastFrame.target)
    /\ gltf[lastFrame.target].influences[1][2] = 60
    /\ gltf[lastFrame.target].influences[2][1] = 60
    /\ gltf[lastFrame.target].influences[1][1] = 80

(***************************************************************************)
(* The Coefficient Resolver as spec.md 4.1 describes it, for the formulas  *)
(* of C14 to C16.  AliasTable: detector name -> alternate names, in order. *)
(***************************************************************************)
AliasTable == [name \in {"mouthSmileLeft"} |-> <<"smileLeft", "mouthSmile_L">>]

\* the aliases of a name that a vocabulary has, by their place in the list
AliasesIn(name, vocabulary) ==
    IF name \notin DOMAIN AliasTable THEN {}
    ELSE {k \in 1..Len(AliasTable[name]) : AliasTable[name][k] \in DOMAIN vocabulary}

\* the slot the resolver returns: 0 for "unresolved"
Resolve(name, vocabulary) ==
    IF name \in DOMAIN vocabulary THEN vocabulary[name]
    ELSE IF AliasesIn(name, vocabulary) # {}
         THEN vocabulary[AliasTable[name][
                CHOOSE k \in AliasesIn(name, vocabulary) :
                   \A other \in AliasesIn(name, vocabulary) : k <= other]]
         ELSE 0

\* the writes of the frame f that went to a mesh, in program order
WritesTo(f, mesh) ==
    {w \in 1..Len(f.writes) : f.writes[w].kind = "weight" /\ f.writes[w].mesh = mesh}

\* C14: when a frame reports a name that a mesh has neither verbatim nor
\* through an alias, the callback ends without an exception, no write to
\* that mesh goes to a slot other than those the frame's other names resolve
\* to, and every reported name the mesh has verbatim is written all the same.
C14_UnresolvedNameDropped ==
    [][(FrameOk /\ lastFrame'.targetLoaded /\ lastFrame'.reported # Absent) =>
          \A mesh \in MeshesOf(avatar) :
             (\E c \in 1..Len(lastFrame'.reported) :
                 Resolve(lastFrame'.reported[c].categoryName, Vocabulary(avatar, mesh)) = 0)
             => /\ logged' = {}
                /\ \A w \in WritesTo(lastFrame', mesh) :
                      \E c \in 1..Len(lastFrame'.reported) :
                         lastFrame'.writes[w].slot
                            = Resolve(lastFrame'.reported[c].categoryName, Vocabulary(avatar, mesh))
                /\ \A c \in 1..Len(lastFrame'.reported) :
                      LET name == lastFrame'.reported[c].categoryName
                      IN  name \in DOMAIN Vocabulary(avatar, mesh) =>
                            \E w \in WritesTo(lastFrame', mesh) :
                               /\ lastFrame'.writes[w].slot = Vocabulary(avatar, mesh)[name]
                               /\ lastFrame'.writes[w].value = ExpectedWeight(lastFrame'.reported[c])]_vars

\* jawOpen, which the second mesh does not have, was reported ahead of
\* eyeBlinkLeft, which was then written to that mesh
C14_Witness ==
    /\ lastFrame.outcome = "ok"
    /\ lastFrame.targetLoaded
    /\ Len(lastFrame.reported) >= 2
    /\ lastFrame.reported[1].categoryName = "jawOpen"
    /\ 2 \in MeshesOf(lastFrame.target)
    /\ Resolve("jawOpen", Vocabulary(lastFrame.target, 2)) = 0
    /\ \E w \in WritesTo(lastFrame, 2) :
          lastFrame.writes[w].slot = 1 /\ lastFrame.writes[w].value = 60

\* C15: after a frame, for every mesh of the active avatar and every reported
\* name, the slot the resolver gives (the verbatim one if the mesh has the
\* name, else that of the first alias in list order that the mesh has) holds
\* the coefficient's value.
C15_AliasResolution ==
    [][(FrameOk /\ lastFrame'.targetLoaded /\ lastFrame'.reported # Absent) =>
          \A mesh \in MeshesOf(avatar) :
             \A c \in 1..Len(lastFrame'.reported) :
                LET slot == Resolve(lastFrame'.reported[c].categoryName,
                                    Vocabulary(avatar, mesh))
                IN  slot # 0 =>
                      gltf'[avatar].influences[mesh][slot]
                         = ExpectedWeight(lastFrame'.reported[c])]_vars

\* the smaller of two numbers
Min(a, b) == IF a <= b THEN a ELSE b

\* C16: for every mesh of the active avatar in which none of the frame's
\* names resolves, the frame ends without an error and writes exactly
\* min(number of coefficients, number of slots) weights to the mesh: the
\* raw score of the i-th reported coefficient into the i-th slot.
C16_PositionalFallback ==
    [][(FrameOk /\ lastFrame'.targetLoaded /\ lastFrame'.reported # Absent) =>
          \A mesh \in MeshesOf(avatar) :
             (\A c \in 1..Len(lastFrame'.reported) :
                 Resolve(lastFrame'.reported[c].categoryName, Vocabulary(avatar, mesh)) = 0)
             => LET n == Min(Len(lastFrame'.reported),
                             Len(gltf[avatar].influences[mesh]))
                IN  /\ logged' = {}
                    /\ Cardinality(WritesTo(lastFrame', mesh)) = n
                    /\ \A i \in 1..n :
                          /\ gltf'[avatar].influences[mesh][i]
                                = lastFrame'.reported[i].score * 10
                          /\ \E w \in WritesTo(lastFrame', mesh) :
                                /\ lastFrame'.writes[w].slot = i
                                /\ lastFrame'.writes[w].value
                                      = lastFrame'.reported[i].score * 10]_vars

\* S * M for the uniform scale S of factor s: M's rotation and translation
\* first, the scale after them (the translation is scaled as well)
ScaleAfter(m, s) == [k \in 1..16 |-> IF k % 4 = 0 THEN m[k] ELSE m[k] * s]

\* M * S: the scale first, M's rotation and translation after it (the three
\* rotation columns are scaled, the translation column is M's)
ScaleBefore(m, s) == [k \in 1..16 |-> IF k <= 12 THEN m[k] * s ELSE m[k]]

\* the automatic recomputation, once off for a loaded root, stays off
AutoUpdateStaysOff ==
    \A i \in Instances :
       (Loaded(i) /\ ~gltf[i].matrixAutoUpdate)
          => (Loaded(i)' /\ ~gltf'[i].matrixAutoUpdate)

\* C17 as the claim states it: after a frame with a head transform M the
\* root matrix of the active avatar is the scale of 40 applied after M's
\* rotation and translation, whatever it was before; for the identity it is
\* the pure scale of 40; the automatic recomputation is off from then on.
C17_ScaleAfterTransform ==
    [][/\ (FrameOk /\ lastFrame'.targetLoaded /\ lastFrame'.transform # Absent) =>
            /\ gltf'[avatar].matrix = ScaleAfter(lastFrame'.transform[1], 40)
            /\ lastFrame'.transform[1] = Identity =>
                  gltf'[avatar].matrix
                     = <<40, 0, 0, 0,   0, 40, 0, 0,   0, 0, 40, 0,   0, 0, 0, 1>>
            /\ ~gltf'[avatar].matrixAutoUpdate
       /\ AutoUpdateStaysOff]_vars

\* C17 amended: after a frame with a head transform M the root matrix of the
\* active avatar is M with its three rotation columns multiplied by 40 and
\* its translation column as reported, whatever it was before; for the
\* identity it is the pure scale of 40; the automatic recomputation is off
\* from then on.
C17_PoseComposition ==
    [][/\ (FrameOk /\ lastFrame'.targetLoaded /\ lastFrame'.transform # Absent) =>
            /\ gltf'[avatar].matrix = ScaleBefore(lastFrame'.transform[1], 40)
            /\ lastFrame'.transform[1] = Identity =>
                  gltf'[avatar].matrix
                     = <<40, 0, 0, 0,   0, 40, 0, 0,   0, 0, 40, 0,   0, 0, 0, 1>>
            /\ ~gltf'[avatar].matrixAutoUpdate
       /\ AutoUpdateStaysOff]_vars

\* a turned and moved head was composed onto an avatar right after another
\* processed frame
C17_Witness ==
    /\ lastFrame.outcome = "ok"
    /\ lastFrame.after = "ok"
    /\ lastFrame.targetLoaded
    /\ lastFrame.transform = <<TurnedHead>>
    /\ gltf[lastFrame.target].matrix
          = <<0, 0, -40, 0,   0, 40, 0, 0,   40, 0, 0, 0,   1, 2, -3, 1>>
    /\ ~gltf[lastFrame.target].matrixAutoUpdate

\* C18: while tracking is on and the detector is not there yet, a video
\* frame's callbacks do nothing and register themselves again; the end of
\* the detector's initialization leaves tracking and the registered callbacks
\* as they are and starts no camera request; and with the detector there,
\* each callback of the next video frame invokes it.
C18_LoopWaitsForDetector ==
    [][/\ (FrameRan /\ trackingActive /\ video /\ ~faceLandmarker) =>
            /\ lastFrame'.outcome = "skip"
            /\ lastFrame'.frameCalls = 0
            /\ gltf' = gltf
            /\ pendingCallbacks' = pendingCallbacks
            /\ pendingCallbacks' >= 1
       /\ (pc = "initMediaPipe" /\ pc' = "ready" /\ trackingActive) =>
            /\ trackingActive'
            /\ pendingCallbacks' = pendingCallbacks
            /\ streams' = streams
       /\ (FrameRan /\ trackingActive /\ video /\ faceLandmarker) =>
            /\ lastFrame'.calls = 1
            /\ lastFrame'.outcome \in {"ok", "error"}]_vars

\* the frame right after the end of the initialization was processed, the
\* frame before it had been a no-op
C18_Witness ==
    /\ lastFrame.after = "skip"
    /\ lastFrame.outcome = "ok"
    /\ lastFrame.calls = 1
    /\ lastFrame.reported # Absent
    /\ pc = "ready"
    /\ faceLandmarker
    /\ trackingActive
    /\ frames >= 2

\* the step in which initMediaPipe ends in its catch block
InitFails ==
    pc = "initMediaPipe" /\ pc' = "ready" /\ "initMediaPipe ERROR" \in logged'

\* C19: when initMediaPipe fails, that step reports the failure and no other
\* step reports it; startApp still adds the click listener and starts the
\* camera; the render loop and the registered callbacks stay; the detector
\* is absent then and from then on, and a video frame without the detector
\* makes no detectForVideo call and leaves every avatar as it is.
C19_DetectorInitFailureDegrades ==
    [][/\ "initMediaPipe ERROR" \in logged' => InitFails
       /\ InitFails =>
            /\ ~faceLandmarker'
            /\ scene' = scene
            /\ pendingCallbacks' = pendingCallbacks
            /\ variant = 2 =>
                  /\ clickListener'
                  /\ \/ streams'["getUserMedia"] = streams["getUserMedia"] + 1
                     \/ "streamWebcam video element not found" \in logged'
       /\ (pc = "ready" /\ ~faceLandmarker) => ~faceLandmarker'
       /\ (FrameRan /\ ~faceLandmarker) =>
            /\ lastFrame'.frameCalls = 0
            /\ gltf' = gltf
            /\ pendingCallbacks' = pendingCallbacks]_vars

\* C20: with detector scores in [0,1] (0..10 in tenths), every weight a
\* frame writes and every weight a loaded mesh holds lies in [0,1] (0..100
\* in hundredths), for the names of the gain list as well.
C20_WeightsInUnitRange ==
    /\ \A w \in WeightWrites :
          lastFrame.writes[w].value >= 0 /\ lastFrame.writes[w].value <= 100
    /\ \A i \in Instances : Loaded(i) =>
          \A mesh \in DOMAIN gltf[i].influences :
             \A slot \in DOMAIN gltf[i].influences[mesh] :
                /\ gltf[i].influences[mesh][slot] >= 0
                /\ gltf[i].influences[mesh][slot] <= 100

\* a start request ended in the catch block of streamWebcam, or at the end
\* of its try block
StartFails == "streamWebcam ERROR" \in logged'
StartSucceeds == InFlight' = InFlight - 1 /\ ~StartFails

\* C21: a start request that fails leaves trackingActive false and no
\* video-frame callback registered, logs the error and enables the start
\* button; a start request that succeeds sets trackingActive and leaves
\* exactly one callback registered; and the start button is disabled
\* whenever a start request is in progress or tracking is on.
C21_FailedStartCanBeRetried ==
    [][/\ StartFails =>
            /\ InFlight' = InFlight - 1
            /\ ~trackingActive'
            /\ pendingCallbacks' = 0
            /\ ~startBtnDisabled'
       /\ StartSucceeds =>
            /\ trackingActive'
            /\ pendingCallbacks' = 1
       /\ (InFlight' > 0 \/ trackingActive') => startBtnDisabled']_vars

====
